---- MODULE Spec2Model ----
(***************************************************************************)
(* Batched cache-fill coordinator of src/tornado/server-async-work.py:     *)
(* CacheCore / MyCache (the coordinator: key_map, _pending, pending,       *)
(* get, add_pending, remove_pending, _fill) and MyAsyncCacheHandler (the   *)
(* caller-side retry loop: _expensive, cleanup, on_finish,                 *)
(* on_connection_close), run on one tornado IOLoop.                        *)
(*                                                                         *)
(* Everything runs on the IOLoop thread, so each handler below (a request  *)
(* arriving, a queued callback running, a connection closing, the periodic *)
(* _fill) is one atomic action.                                            *)
(***************************************************************************)
EXTENDS Integers, Sequences, FiniteSets, TLC

(* ------------------------------ bounds --------------------------------- *)
\* number of request handlers (callers) that ever arrive
NumHandlers == 2
\* number of distinct uuid arguments
NumKeys == 2
\* payloads are 0..MaxPayload (the source draws random.randint(0, 100))
MaxPayload == 1
\* number of add_pending calls made by clients other than MyAsyncCacheHandler
MaxDirect == 1

(* ------------------------- program constants --------------------------- *)
CACHE_MISS_LIM == 3
\* Python's None, as returned by CacheCore.get on a miss
None == -2
NOT_FOUND == -1

Handlers == 1..NumHandlers
Keys == 1..NumKeys
Payloads == 0..MaxPayload

\* A callback is the closure "lambda: self._expensive(count + 1, callback)"
\* of line 261: <<handler, count + 1>>. Handler 0 is a client of CacheCore
\* other than MyAsyncCacheHandler (only in SpecAPI).
NoCallback == <<0, 0>>
External == <<0, 1>>

VARIABLES
    key_map,    \* CacheCore.key_map : dict uuid -> None | NOT_FOUND | payload
    _pending,   \* CacheCore._pending: dict uuid -> set of callbacks
    pending,    \* CacheCore.pending : the dict swapped out by the last _fill
    ioloop,     \* callbacks queued by io_loop.add_callback, not yet run
    handlers,   \* the MyAsyncCacheHandler instances
    last,       \* what the last step did (observation only)
    unsubscribed, \* callbacks a closing connection took out of _pending
                  \* (observation only)
    direct,     \* add_pending calls made by other clients so far
    obs         \* counts and logs kept along the run (observation only)

vars == <<key_map, _pending, pending, ioloop, handlers, last, unsubscribed, direct, obs>>

(* ----------------------------- dict helpers ---------------------------- *)
EmptyDict == [k \in {} |-> {}]

Put(d, k, v) == [x \in (DOMAIN d) \cup {k} |-> IF x = k THEN v ELSE d[x]]

Del(d, k) == [x \in (DOMAIN d) \ {k} |-> d[x]]

\* defaultdict(set).__getitem__ as a read
Waiters(d, k) == IF k \in DOMAIN d THEN d[k] ELSE {}

\* every callback registered anywhere in dict d
Registered(d) == UNION {d[k] : k \in DOMAIN d}

(* ------------------------------ CacheCore ------------------------------ *)
get(km, uuid) == IF uuid \in DOMAIN km THEN km[uuid] ELSE None

add_pending_toggle(p, uuid, callback) ==
    IF callback \in Waiters(p, uuid)
    THEN Put(p, uuid, Waiters(p, uuid) \ {callback})
    ELSE Put(p, uuid, Waiters(p, uuid) \cup {callback})

add_pending(p, uuid, callback) == Put(p, uuid, Waiters(p, uuid) \cup {callback})

remove_pending_forgotten(p, uuid, callback) == p

remove_pending_else_del(p, uuid, callback) ==
    LET callbacks == Waiters(p, uuid)
    IN  IF callback \in callbacks
        THEN Put(p, uuid, callbacks \ {callback})
        ELSE Del(p, uuid)

\* line 188: del d[k] raises KeyError when k is not a key of d
del_raises(d, k) == k \notin DOMAIN d

\* line 184: reading self._pending[uuid] inserts an empty set for a missing key
touched(p, uuid) == Put(p, uuid, Waiters(p, uuid))

\* lines 184-188: the callback is removed from the key's set, then the whole
\* entry of the key is deleted, whatever is left in it
remove_pending(p, uuid, callback) ==
    LET callbacks == Waiters(p, uuid)
        removed == IF callback \in callbacks THEN callbacks \ {callback} ELSE callbacks
    IN  Del(Put(p, uuid, removed), uuid)

(* ------------------------------- MyCache ------------------------------- *)
\* lines 202-203: self.pending takes the dict, self._pending a new empty one
swap(p) == [snapshot |-> p, fresh |-> EmptyDict]

base_case_all(km, snap) == [k \in (DOMAIN km) \cup (DOMAIN snap) |-> None]

\* lines 206-207: every key of the snapshot is set to None
base_case(km, snap) ==
    [k \in (DOMAIN km) \cup (DOMAIN snap) |-> IF k \in DOMAIN snap THEN None ELSE km[k]]

\* one draw of lines 215-222: <<n, v>> with n = randint(0,2), v = randint(0,100)
Draws == {<<0, v>> : v \in Payloads} \cup {<<1, 0>>, <<2, 0>>}

drawn(d) == IF d[1] = 0 THEN d[2] ELSE IF d[1] = 1 THEN None ELSE NOT_FOUND

lookup_calls_per_waiter(snap) == [k \in DOMAIN snap |-> Cardinality(snap[k])]

\* line 214: the loop draws once for each key of the snapshot
lookup_calls(snap) == [k \in DOMAIN snap |-> 1]

fill_keys_skipped(km, done, draw) == km

\* lines 214-222 for the keys in done (all keys of the snapshot when the loop
\* runs to its end)
fill_keys(km, done, draw) ==
    [k \in DOMAIN km |-> IF k \in done THEN drawn(draw[k]) ELSE km[k]]

Pairs(snap) == {<<k, cb>> : k \in DOMAIN snap, cb \in Registered(snap)} \cap
               {<<k, cb>> \in (DOMAIN snap) \X Registered(snap) : cb \in snap[k]}

schedule_twice(km, snap) ==
    LET P == Pairs(snap)
        n == Cardinality(P)
    IN  {[i \in 1..(2 * n) |-> s[((i - 1) % n) + 1][2]] : s \in
            {s \in [1..n -> P] : \A i, j \in 1..n : i # j => s[i] # s[j]}}

schedule_resolved_only(km, snap) ==
    LET P == {p \in Pairs(snap) : get(km, p[1]) # None}
        n == Cardinality(P)
    IN  {[i \in 1..n |-> s[i][2]] : s \in
            {s \in [1..n -> P] : \A i, j \in 1..n : i # j => s[i] # s[j]}}

\* lines 225-228: the orders in which one _fill can queue the callbacks of
\* the snapshot (dict and set iteration order is arbitrary; the callbacks of
\* one key are queued one after the other)
schedule(km, snap) ==
    LET P == Pairs(snap)
        n == Cardinality(P)
    IN  {[i \in 1..n |-> s[i][2]] : s \in
            {s \in [1..n -> P] :
                /\ \A i, j \in 1..n : i # j => s[i] # s[j]
                /\ \A i, j, l \in 1..n :
                      (i < j /\ j < l /\ s[i][1] = s[l][1]) => s[j][1] = s[i][1]}}

(* -------------------------- MyAsyncCacheHandler ------------------------ *)
NewHandler ==
    [phase |-> "new", closed |-> FALSE, uuid |-> 0,
     callback |-> NoCallback, value |-> None, status |-> 0]

\* BaseHandler.error / the wrapped method: the response is written and
\* finish() runs; on_finish -> cleanup -> remove_pending (lines 273-278).
\* onfin is FALSE only when finish() fails on a connection that has gone.
finish(hr, p, status, onfin) ==
    [hr |-> [hr EXCEPT !.status = status, !.phase = "finished"],
     p  |-> IF onfin THEN remove_pending(p, hr.uuid, hr.callback) ELSE p]

expensive_subscribe_always(self, hr, count, km, p, onfin) ==
    LET v  == get(km, hr.uuid)
        h1 == [hr EXCEPT !.value = v]
    IN  IF count < CACHE_MISS_LIM
        THEN [hr |-> [h1 EXCEPT !.callback = <<self, count + 1>>],
              p  |-> add_pending(p, hr.uuid, <<self, count + 1>>)]
        ELSE finish(h1, p, 500, onfin)

expensive_same_count(self, hr, count, km, p, onfin) ==
    LET v  == get(km, hr.uuid)
        h1 == [hr EXCEPT !.value = v]
    IN  IF v = None
        THEN IF count < CACHE_MISS_LIM
             THEN [hr |-> [h1 EXCEPT !.callback = <<self, count>>],
                   p  |-> add_pending(p, hr.uuid, <<self, count>>)]
             ELSE finish(h1, p, 500, onfin)
        ELSE IF v = NOT_FOUND
        THEN finish(h1, p, 400, onfin)
        ELSE finish(h1, p, 200, onfin)

expensive_off_by_one(self, hr, count, km, p, onfin) ==
    LET v  == get(km, hr.uuid)
        h1 == [hr EXCEPT !.value = v]
    IN  IF v = None
        THEN IF count + 1 < CACHE_MISS_LIM
             THEN [hr |-> [h1 EXCEPT !.callback = <<self, count + 1>>],
                   p  |-> add_pending(p, hr.uuid, <<self, count + 1>>)]
             ELSE finish(h1, p, 500, onfin)
        ELSE IF v = NOT_FOUND
        THEN finish(h1, p, 400, onfin)
        ELSE finish(h1, p, 200, onfin)

\* lines 256-271
expensive(self, hr, count, km, p, onfin) ==
    LET v  == get(km, hr.uuid)
        h1 == [hr EXCEPT !.value = v]
    IN  IF v = None
        THEN IF count < CACHE_MISS_LIM
             THEN [hr |-> [h1 EXCEPT !.callback = <<self, count + 1>>],
                   p  |-> add_pending(p, hr.uuid, <<self, count + 1>>)]
             ELSE finish(h1, p, 500, onfin)
        ELSE IF v = NOT_FOUND
        THEN finish(h1, p, 400, onfin)
        ELSE finish(h1, p, 200, onfin)

(* ------------------------------- state --------------------------------- *)
Step(op, h, cb, before, looked, dispatched) ==
    [op |-> op, h |-> h, cb |-> cb, before |-> before,
     looked |-> looked, dispatched |-> dispatched]

Cap(n, m) == IF n < m THEN n ELSE m

\* obs after handler h ran _expensive once and ended up as record hr
Ran(h, hr) ==
    [obs EXCEPT !.gets[h] = Cap(@ + 1, CACHE_MISS_LIM + 2),
                !.subs[h] = IF hr.phase = "open"
                            THEN Cap(@ + 1, CACHE_MISS_LIM + 2) ELSE @]

\* obs after a _fill that swapped out snap, drew wrote for its keys and
\* queued order
Ticked(snap, wrote, order) ==
    [obs EXCEPT
        !.keyticks = [h \in Handlers |->
            IF /\ handlers[h].phase = "open"
               /\ handlers[h].uuid \in DOMAIN snap
               /\ \A i \in 1..Len(ioloop) : ioloop[i][1] # h
            THEN Cap(@[h] + 1, CACHE_MISS_LIM) ELSE @[h]],
        !.dispatches = [h \in Handlers |->
            Cap(@[h] + Cardinality({i \in 1..Len(order) : order[i][1] = h}),
                CACHE_MISS_LIM + 2)],
        !.wrote = [k \in (DOMAIN @) \cup (DOMAIN snap) |->
            IF k \in DOMAIN snap THEN wrote[k] ELSE @[k]],
        !.queued = @ \cup {order[i] : i \in 1..Len(order)}]

Init ==
    /\ key_map = [k \in {} |-> None]
    /\ _pending = EmptyDict
    /\ pending = EmptyDict
    /\ ioloop = <<>>
    /\ handlers = [h \in Handlers |-> NewHandler]
    /\ last = Step("init", 0, NoCallback, {}, [k \in {} |-> 0], <<>>)
    /\ unsubscribed = {}
    /\ direct = 0
    /\ obs = [keyticks   |-> [h \in Handlers |-> 0],
              dispatches |-> [h \in Handlers |-> 0],
              gets       |-> [h \in Handlers |-> 0],
              subs       |-> [h \in Handlers |-> 0],
              wrote      |-> [k \in {} |-> None],
              queued     |-> {}]

(* ------------------------------ actions -------------------------------- *)
\* A request for uuid arrives: prepare (241-245), the async_expensive
\* wrapper (251-253), _expensive(0, ...). Handlers arrive in index order.
Request(h, uuid) ==
    /\ handlers[h].phase = "new"
    /\ \A g \in Handlers : g < h => handlers[g].phase # "new"
    /\ LET hr == [handlers[h] EXCEPT !.phase = "open", !.uuid = uuid,
                                     !.callback = NoCallback]
           r  == expensive(h, hr, 0, key_map, _pending, TRUE)
       IN  /\ handlers' = [handlers EXCEPT ![h] = r.hr]
           /\ _pending' = r.p
           /\ obs' = Ran(h, r.hr)
    /\ last' = Step("request", h, NoCallback, {}, [k \in {} |-> 0], <<>>)
    /\ UNCHANGED <<key_map, pending, ioloop, unsubscribed, direct>>

\* The IOLoop runs the callback at the head of its queue.
RunCallback ==
    /\ ioloop # <<>>
    /\ LET cb == Head(ioloop)
           h  == cb[1]
       IN  /\ ioloop' = Tail(ioloop)
           /\ last' = Step("callback", h, cb, {}, [k \in {} |-> 0], <<>>)
           /\ IF h = 0
              THEN UNCHANGED <<handlers, _pending, obs>>
              ELSE \E onfin \in (IF handlers[h].closed THEN BOOLEAN ELSE {TRUE}) :
                      LET r == expensive(h, handlers[h], cb[2], key_map, _pending, onfin)
                      IN  /\ handlers' = [handlers EXCEPT ![h] = r.hr]
                          /\ _pending' = r.p
                          /\ obs' = Ran(h, r.hr)
    /\ UNCHANGED <<key_map, pending, unsubscribed, direct>>

\* The client goes away while the request is open:
\* on_connection_close -> on_finish -> cleanup (273-281).
ConnectionClose(h) ==
    /\ handlers[h].phase = "open"
    /\ ~handlers[h].closed
    /\ handlers' = [handlers EXCEPT ![h].closed = TRUE]
    /\ _pending' = remove_pending(_pending, handlers[h].uuid, handlers[h].callback)
    /\ last' = Step("close", h, handlers[h].callback,
                    Waiters(_pending, handlers[h].uuid), [k \in {} |-> 0], <<>>)
    /\ unsubscribed' = unsubscribed \cup
                          ({handlers[h].callback} \cap Waiters(_pending, handlers[h].uuid))
    /\ UNCHANGED <<key_map, pending, ioloop, direct, obs>>

\* The PeriodicCallback of line 169 fires: MyCache._fill (198-231).
Fill ==
    IF DOMAIN _pending = {}
    THEN /\ last' = Step("fill_noop", 0, NoCallback, {}, [k \in {} |-> 0], <<>>)
         /\ UNCHANGED <<key_map, _pending, pending, ioloop, handlers, unsubscribed,
                        direct, obs>>
    ELSE \E draw \in [DOMAIN _pending -> Draws] :
            LET sw   == swap(_pending)
                snap == sw.snapshot
                km   == fill_keys(base_case(key_map, snap), DOMAIN snap, draw)
            IN  \E order \in schedule(km, snap) :
                   /\ pending' = snap
                   /\ _pending' = sw.fresh
                   /\ key_map' = km
                   /\ ioloop' = ioloop \o order
                   /\ last' = Step("fill", 0, NoCallback, {}, lookup_calls(snap), order)
                   /\ obs' = Ticked(snap, [k \in DOMAIN snap |-> drawn(draw[k])], order)
                   /\ UNCHANGED <<handlers, unsubscribed, direct>>

\* _fill when the body of its try block raises before the loop of 214-222 has
\* handled every key: the keys in done were drawn, control goes to the
\* except clause (230-231) and _fill returns without raising.
FillRaise ==
    /\ DOMAIN _pending # {}
    /\ \E done \in (SUBSET DOMAIN _pending) \ {DOMAIN _pending} :
       \E draw \in [DOMAIN _pending -> Draws] :
          /\ \A k \in (DOMAIN _pending) \ done : draw[k] = <<1, 0>>
          /\ pending' = swap(_pending).snapshot
          /\ _pending' = swap(_pending).fresh
          /\ key_map' = fill_keys(base_case(key_map, _pending), done, draw)
          /\ last' = Step("fill_raise", 0, NoCallback, {},
                          [k \in done |-> 1], <<>>)
          /\ obs' = Ticked(_pending, [k \in DOMAIN _pending |-> drawn(draw[k])], <<>>)
          /\ UNCHANGED <<ioloop, handlers, unsubscribed, direct>>

\* A client of CacheCore other than MyAsyncCacheHandler calls
\* add_pending(uuid, callback) itself, whatever get(uuid) returns.
DirectSubscribe(uuid) ==
    /\ IF External \in Waiters(_pending, uuid)
       THEN direct' = direct
       ELSE direct < MaxDirect /\ direct' = direct + 1
    /\ \A i \in 1..Len(ioloop) : ioloop[i] # External
    /\ \A k \in (DOMAIN _pending) \ {uuid} : External \notin _pending[k]
    /\ _pending' = add_pending(_pending, uuid, External)
    /\ last' = Step("subscribe", 0, External, Waiters(_pending, uuid),
                    [k \in {} |-> 0], <<>>)
    /\ UNCHANGED <<key_map, pending, ioloop, handlers, unsubscribed, obs>>

Next ==
    \/ \E h \in Handlers, uuid \in Keys : Request(h, uuid)
    \/ RunCallback
    \/ \E h \in Handlers : ConnectionClose(h)
    \/ Fill

NextRaise ==
    \/ Next
    \/ FillRaise

NextAPI ==
    \/ Next
    \/ \E uuid \in Keys : DirectSubscribe(uuid)

\* the program: requests served by MyAsyncCacheHandler, the periodic _fill
Spec == Init /\ [][Next]_vars

\* the program with a lookup that can raise inside _fill
SpecRaise == Init /\ [][NextRaise]_vars

\* CacheCore used through its methods by any client
SpecAPI == Init /\ [][NextAPI]_vars

\* the IOLoop keeps running queued callbacks and the PeriodicCallback keeps
\* firing _fill
FairSpec == Spec /\ WF_vars(RunCallback) /\ WF_vars(Fill)

(* ------------------------------ claims --------------------------------- *)
Count(cb, seq) == Cardinality({i \in 1..Len(seq) : seq[i] = cb})

Range(seq) == {seq[i] : i \in 1..Len(seq)}

\* the callbacks of handler h registered in _pending
Subscriptions(h) == {cb \in Registered(_pending) : cb[1] = h}

\* C1: unsubscribe(k, h1) removes only h1: every other handle registered for
\* k before the call is still registered for k after it, and the entry of k
\* is gone only when no other handle was left.
C1_UnsubscribeRemovesOnlyGivenHandle ==
    last.op = "close" =>
        LET k == handlers[last.h].uuid
            others == last.before \ {last.cb}
        IN  /\ \A h2 \in others : h2 \in Waiters(_pending, k)
            /\ (k \notin DOMAIN _pending) => (others = {})

\* C2: under a fair tick driver and IOLoop, every caller that is awaiting a
\* fill and has not cancelled eventually reaches a terminal state (or
\* cancels), whatever the other callers do.
C2_AwaitingCallerTerminates ==
    \A h \in Handlers :
        (handlers[h].phase = "open" /\ ~handlers[h].closed)
            ~> (handlers[h].phase = "finished" \/ handlers[h].closed)

\* C3: a tick queues every callback of its snapshot exactly once, whatever
\* the keys of the snapshot were drawn to be.
C3_SnapshotDispatchedExactlyOnce ==
    last.op = "fill" =>
        /\ \A k \in DOMAIN pending : \A cb \in pending[k] :
              Count(cb, last.dispatched) = 1
        /\ Len(last.dispatched) <= Len(ioloop)
        /\ SubSeq(ioloop, Len(ioloop) - Len(last.dispatched) + 1, Len(ioloop))
              = last.dispatched

C3_Witness ==
    /\ last.op = "fill"
    /\ \E k1, k2 \in DOMAIN pending :
          /\ key_map[k1] = None
          /\ key_map[k2] \in Payloads \cup {NOT_FOUND}
          /\ pending[k1] # {} /\ pending[k2] # {}

\* C4: when the lookup of a tick raises, _fill does not raise, the keys of
\* the snapshot are Unresolved afterwards and every callback of the snapshot
\* has been queued by that tick.
C4_RaisingLookupStillDispatches ==
    last.op = "fill_raise" =>
        /\ \A k \in DOMAIN pending : get(key_map, k) = None
        /\ \A k \in DOMAIN pending : \A cb \in pending[k] : Count(cb, ioloop) >= 1

\* C5: a tick whose snapshot holds N >= 1 callbacks for key k draws for k
\* exactly once and queues exactly N callbacks of k.
C5_Coalescing ==
    last.op = "fill" =>
        \A k \in DOMAIN pending :
            /\ k \in DOMAIN last.looked
            /\ last.looked[k] = 1
            /\ Cardinality({i \in 1..Len(last.dispatched) :
                              last.dispatched[i] \in pending[k]})
                 = Cardinality(pending[k])

C5_Witness ==
    /\ last.op = "fill"
    /\ \E k \in DOMAIN pending : Cardinality(pending[k]) >= 2

\* C6: once key_map[k] is NOT_FOUND it is NOT_FOUND in every later state,
\* also when a callback is registered for k afterwards and a tick runs.
C6_NotFoundIsPermanent ==
    [][\A k \in Keys :
          get(key_map, k) = NOT_FOUND => get(key_map', k) = NOT_FOUND]_vars

\* C7: with callbacks registered only by _expensive, once key_map[k] holds a
\* payload no step changes it and no tick draws for k again.
C7_FoundIsStable ==
    [][\A k \in Keys :
          get(key_map, k) \in Payloads =>
              /\ get(key_map', k) = get(key_map, k)
              /\ k \notin DOMAIN _pending
              /\ (last'.op = "fill" /\ last' # last) => k \notin DOMAIN last'.looked]_vars

C7_Witness ==
    /\ last.op = "request"
    /\ handlers[last.h].status = 200
    /\ \E g \in Handlers :
          /\ g # last.h
          /\ handlers[g].uuid = handlers[last.h].uuid
          /\ handlers[g].status = 200
          /\ handlers[g].value = handlers[last.h].value

\* C8: a callback that runs for a caller whose connection has closed does
\* nothing: no outcome is reported and no new callback is registered.
C8_CancelledCallerIgnoresWake ==
    (last.op = "callback" /\ last.h # 0 /\ handlers[last.h].closed) =>
        /\ handlers[last.h].status = 0
        /\ handlers[last.h].callback = last.cb
        /\ Subscriptions(last.h) = {}

\* C9: a callback taken out of _pending by its caller's connection closing is
\* in no entry of _pending afterwards, is in no later snapshot and is never
\* queued on the IOLoop.
C9_CancelledHandleNeverDispatched ==
    \A cb \in unsubscribed :
        /\ cb \notin Registered(_pending)
        /\ cb \notin Registered(pending)
        /\ cb \notin Range(ioloop)
        /\ (last.op = "fill" => cb \notin Range(last.dispatched))

C9_Witness ==
    /\ last.op = "fill"
    /\ unsubscribed # {}
    /\ \E cb \in unsubscribed : handlers[cb[1]].uuid \in DOMAIN pending

\* C10: one run of _expensive is decided by the slot get returns and the
\* remaining budget CACHE_MISS_LIM - count: a payload gives 200, NOT_FOUND
\* gives 400 with nothing registered, None with budget left registers exactly
\* the next callback, None with no budget left gives 500 with nothing
\* registered.
C10_InitStepOutcome ==
    (last.op \in {"request", "callback"} /\ last.h # 0) =>
        LET hr == handlers[last.h]
            slot == get(key_map, hr.uuid)
            count == IF last.op = "request" THEN 0 ELSE last.cb[2]
            budget == CACHE_MISS_LIM - count
        IN  /\ hr.value = slot
            /\ slot \in Payloads =>
                  hr.status = 200 /\ hr.phase = "finished"
            /\ slot = NOT_FOUND =>
                  hr.status = 400 /\ hr.phase = "finished" /\ Subscriptions(last.h) = {}
            /\ (slot = None /\ budget > 0) =>
                  /\ hr.status = 0 /\ hr.phase = "open"
                  /\ hr.callback = <<last.h, count + 1>>
                  /\ Subscriptions(last.h) = {<<last.h, count + 1>>}
            /\ (slot = None /\ budget <= 0) =>
                  hr.status = 500 /\ hr.phase = "finished" /\ Subscriptions(last.h) = {}

C10_Witness ==
    /\ last.op = "callback"
    /\ last.h # 0
    /\ last.cb[2] = CACHE_MISS_LIM
    /\ handlers[last.h].status = 500
    /\ \E g \in Handlers : handlers[g].status = 400

\* the callbacks of handler h waiting in the IOLoop queue
Queued(h) == {i \in 1..Len(ioloop) : ioloop[i][1] = h}

\* C11: with budget R = CACHE_MISS_LIM and a key that stays Unresolved, a
\* caller is TimedOut after exactly R ticks on its key: never after fewer,
\* and always once R such ticks have run and it has no wake left to process.
C11_TimedOutAfterExactlyRTicks ==
    \A h \in Handlers :
        /\ handlers[h].status = 500 => obs.keyticks[h] = CACHE_MISS_LIM
        /\ ( /\ handlers[h].phase = "open"
             /\ ~handlers[h].closed
             /\ get(key_map, handlers[h].uuid) = None
             /\ Queued(h) = {} )
           => obs.keyticks[h] < CACHE_MISS_LIM

\* every callback a client can hold
Callbacks == (Handlers \X (1..CACHE_MISS_LIM)) \cup {NoCallback, External}

\* C12: remove_pending is idempotent: called a second time directly after the
\* first with the same key and callback it raises no KeyError and leaves
\* _pending as the first call left it (key_map is not touched by either call);
\* so it is after a connection close for the closing caller's own callback,
\* and from every state for any key and any callback, registered or not.
C12_UnsubscribeIdempotent ==
    /\ \A k \in Keys, cb \in Callbacks :
          LET p1 == remove_pending(_pending, k, cb)
          IN  /\ ~del_raises(touched(_pending, k), k)
              /\ ~del_raises(touched(p1, k), k)
              /\ remove_pending(p1, k, cb) = p1
    /\ last.op = "close" =>
          remove_pending(_pending, handlers[last.h].uuid, last.cb) = _pending

\* a caller registered beside another one has closed its connection
C12_Witness ==
    /\ last.op = "close"
    /\ last.cb \in last.before
    /\ Cardinality(last.before) >= 2

\* C13: add_pending of a callback that is already registered for the key
\* leaves _pending (and key_map) unchanged, and the _fill that follows queues
\* that callback once.
C13_SubscribeIdempotent ==
    [][ /\ (last'.op = "subscribe" /\ last'.cb \in last'.before)
            => (_pending' = _pending /\ key_map' = key_map)
        /\ (last.op = "subscribe" /\ last.cb \in last.before /\ last'.op = "fill")
            => /\ Count(last.cb, last'.dispatched) = 1
               /\ Count(last.cb, ioloop') = 1 ]_vars

\* add_pending was called for a callback registered beside a handler's one
C13_Witness ==
    /\ last.op = "subscribe"
    /\ last.cb \in last.before
    /\ Cardinality(last.before) >= 2
    /\ _pending # EmptyDict

\* C14: _fill swaps _pending for an empty dict and queues exactly the
\* callbacks of the dict it took; a callback registered after the swap is in
\* the new _pending and not in the queue, has not been queued before, and is
\* queued by the next _fill, so that a callback registered on a wake (count
\* above 1) by a caller that is open and has not cancelled is always either
\* registered or queued.
C14_SwapLosesNoHandle ==
    /\ last.op = "fill" =>
          /\ _pending = EmptyDict
          /\ Registered(pending) = Range(last.dispatched)
    /\ Registered(_pending) \cap Range(ioloop) = {}
    /\ Registered(_pending) \cap obs.queued = {}
    /\ \A cb \in Range(ioloop) : Count(cb, ioloop) = 1
    /\ \A h \in Handlers :
          ( /\ handlers[h].phase = "open"
            /\ ~handlers[h].closed
            /\ handlers[h].callback[2] >= 2 ) =>
              handlers[h].callback \in Registered(_pending) \cup Range(ioloop)

\* the retry budget handler h has left: CACHE_MISS_LIM less the count its
\* latest callback carries
Budget(hs, h) == CACHE_MISS_LIM - hs[h].callback[2]

\* C15: over its lifetime a handler calls add_pending at most CACHE_MISS_LIM
\* times and get at most CACHE_MISS_LIM + 1 times; its remaining budget never
\* goes up, never below zero, and goes down by one at each add_pending.
C15_BoundedRetries ==
    [][ \A h \in Handlers :
          /\ obs'.subs[h] <= CACHE_MISS_LIM
          /\ obs'.gets[h] <= CACHE_MISS_LIM + 1
          /\ Budget(handlers', h) >= 0
          /\ Budget(handlers', h) <= Budget(handlers, h)
          /\ IF obs'.subs[h] # obs.subs[h]
             THEN /\ obs'.subs[h] = obs.subs[h] + 1
                  /\ Budget(handlers', h) = Budget(handlers, h) - 1
                  /\ handlers'[h].callback \in Waiters(_pending', handlers'[h].uuid)
             ELSE Budget(handlers', h) = Budget(handlers, h) ]_vars

\* a handler has used its whole budget and timed out
C15_Witness ==
    \E h \in Handlers :
        /\ handlers[h].status = 500
        /\ obs.subs[h] = CACHE_MISS_LIM
        /\ obs.gets[h] = CACHE_MISS_LIM + 1
        /\ Budget(handlers, h) = 0

\* C16: _fill writes the slots of its keys before it queues their callbacks:
\* every queued callback finds in key_map the slot the latest _fill on its key
\* drew, and a callback that has run read exactly that slot with get.
C16_WritePrecedesDispatch ==
    /\ \A i \in 1..Len(ioloop) :
          ioloop[i][1] # 0 =>
              LET k == handlers[ioloop[i][1]].uuid
              IN  /\ k \in DOMAIN obs.wrote
                  /\ k \in DOMAIN key_map
                  /\ get(key_map, k) = obs.wrote[k]
    /\ (last.op = "callback" /\ last.h # 0) =>
          /\ handlers[last.h].uuid \in DOMAIN obs.wrote
          /\ handlers[last.h].value = obs.wrote[handlers[last.h].uuid]

\* a callback has run and read a slot other than the None its handler had
\* read before the _fill
C16_Witness ==
    /\ last.op = "callback"
    /\ last.h # 0
    /\ handlers[last.h].value \in Payloads \cup {NOT_FOUND}
    /\ obs.dispatches[last.h] >= 2

\* C17: a _fill writes and draws only for the keys of the dict it swapped
\* out: every other slot of key_map stays as it was; a _fill that finds
\* _pending empty changes neither key_map nor _pending nor the queue; a run
\* of _expensive, which calls get, leaves key_map as it was.
C17_TickFrame ==
    [][ /\ last'.op = "fill" =>
              /\ DOMAIN key_map' = (DOMAIN key_map) \cup (DOMAIN _pending)
              /\ \A k \in (DOMAIN key_map) \ (DOMAIN _pending) :
                    key_map'[k] = key_map[k]
              /\ DOMAIN last'.looked = DOMAIN _pending
              /\ DOMAIN _pending # {}
        /\ last'.op = "fill_noop" =>
              /\ _pending = EmptyDict
              /\ key_map' = key_map
              /\ _pending' = _pending
              /\ pending' = pending
              /\ ioloop' = ioloop
        /\ last'.op \in {"request", "callback"} => key_map' = key_map ]_vars

\* a _fill has run while a key outside its snapshot held a payload or
\* NOT_FOUND
C17_Witness ==
    /\ last.op = "fill"
    /\ \E k \in (DOMAIN key_map) \ (DOMAIN pending) :
          key_map[k] \in Payloads \cup {NOT_FOUND}

\* every key of dict p reads None in key_map km and has at least one callback
PendingUnresolved(km, p) ==
    \A k \in DOMAIN p : get(km, k) = None /\ p[k] # {}

\* C18: when only _expensive registers callbacks, every key of _pending reads
\* None in key_map and its set of callbacks is not empty, in every state; so
\* the reset of lines 206-207 only ever overwrites None or a missing key.
C18_PendingKeysUnresolved ==
    [][ /\ PendingUnresolved(key_map, _pending)
        /\ PendingUnresolved(key_map', _pending')
        /\ last'.op = "fill" =>
              \A k \in DOMAIN pending' :
                  get(key_map, k) = None /\ pending'[k] # {} ]_vars

\* a _fill has reset a key that an earlier _fill had left None, while another
\* key holds a payload or NOT_FOUND and a caller has closed its connection
C18_Witness ==
    /\ last.op = "fill"
    /\ unsubscribed # {}
    /\ \E h \in Handlers : handlers[h].callback[2] >= 2 /\ handlers[h].uuid \in DOMAIN pending
    /\ \E k \in DOMAIN key_map : key_map[k] \in Payloads \cup {NOT_FOUND}

\* C19: a handler has at most one wake outstanding: of its callbacks at most
\* one is registered in _pending or waiting in the IOLoop queue, never both
\* and never one twice; the count its callback carries is the number of
\* _fill runs that queued the handler so far, plus one once the queued
\* callback has run and registered the next.
C19_OneOutstandingWake ==
    \A h \in Handlers :
        /\ Cardinality(Subscriptions(h)) + Cardinality(Queued(h)) <= 1
        /\ handlers[h].callback \notin Registered(_pending) \/
              handlers[h].callback \notin Range(ioloop)
        /\ \A cb \in Subscriptions(h) : cb[2] = obs.dispatches[h] + 1
        /\ \A i \in Queued(h) : ioloop[i][2] = obs.dispatches[h]
        /\ handlers[h].callback[2] \in {obs.dispatches[h], obs.dispatches[h] + 1}

\* a handler queued by two _fill runs has registered its third callback while
\* another handler's callback waits in the queue
C19_Witness ==
    \E h, g \in Handlers :
        /\ h # g
        /\ obs.dispatches[h] = 2
        /\ Subscriptions(h) = {<<h, 3>>}
        /\ Queued(g) # {}

====
